---- MODULE Spec2Model ----
(***************************************************************************)
(* minigrep: the library (src/src/lib.rs) and the binary (src/src/main.rs). *)
(*                                                                         *)
(* A string is a sequence of one-character strings.  The state machine     *)
(* follows one call of one entry point: a library function called by a     *)
(* client (Config::new, Config::new_from_args, parse_config, search,       *)
(* search_case_insensitive, run) or the binary's main.  The inputs of the  *)
(* call (arguments, environment, file contents) are drawn in Init and at   *)
(* the read of the file.                                                   *)
(***************************************************************************)
EXTENDS Integers, Sequences, FiniteSets, TLC

VARIABLES
    entry,      \* the entry point being executed
    pc,         \* position inside the entry point
    args,       \* the argument vector (args[1] is Rust's args[0])
    dbg,        \* the dbg parameter of Config::new_from_args
    env,        \* state of the MINIGREP_IGNORE_CASE environment variable
    query,      \* the query parameter (Config::new, search, search_case_insensitive)
    filename,   \* the filename parameter (Config::new)
    contents,   \* the contents parameter / the text read from the file
    config,     \* the Config value held by the caller
    ret,        \* the value returned by the entry point
    results,    \* the Vec<SearchResult> returned by the search
    counter,    \* run's finding counter
    io_error,   \* the io::Error read_file returned ("none" when it returned Ok)
    reads,      \* number of calls of fs::read_to_string
    searches,   \* number of calls of search / search_case_insensitive
    stdout,     \* lines printed with println!
    stderr,     \* lines printed with eprintln! or by the panic handler
    exit_code   \* the process exit status (main only)

vars == <<entry, pc, args, dbg, env, query, filename, contents, config, ret,
          results, counter, io_error, reads, searches, stdout, stderr, exit_code>>

----------------------------------------------------------------------------
(* Bounds of the model *)

MaxArgs == 4
MaxQueryLen == 2
MaxContentsLen == 4

(* The characters of the model: a letter in both cases and the two line     *)
(* ending characters.                                                      *)
Alphabet == {"a", "A", "\n", "\r"}

Strings(n) == UNION {[1..k -> Alphabet] : k \in 0..n}

(* Command line tokens. *)
ArgTokens == {<<>>, <<"a">>, <<"A", "a">>}

ArgSeqs == UNION {[1..k -> ArgTokens] : k \in 0..MaxArgs}

(* MINIGREP_IGNORE_CASE: unset, set to a value that is not valid Unicode,   *)
(* or set to a string.                                                     *)
EnvStates ==
    {[present |-> FALSE, unicode |-> TRUE, value |-> ""],
     [present |-> TRUE, unicode |-> FALSE, value |-> ""]}
    \cup {[present |-> TRUE, unicode |-> TRUE, value |-> v] :
             v \in {"1", "0", "true", "", "11"}}

IoErrors == {"NotFound", "PermissionDenied", "InvalidData"}

----------------------------------------------------------------------------
(* Values *)

Config(q, f, ic) == [built |-> TRUE, query |-> q, filename |-> f, ignore_case |-> ic]

NoConfig == [built |-> FALSE, query |-> <<>>, filename |-> <<>>, ignore_case |-> FALSE]

SearchResult_new(line, line_number) == [line |-> line, line_number |-> line_number]

UsageMsg == "Not enough arguments. USAGE is: minigrep <query> <filename>"

NoRet == [tag |-> "None", err |-> ""]
RetOk == [tag |-> "Ok", err |-> ""]
RetErr(e) == [tag |-> "Err", err |-> e]
RetPanic(e) == [tag |-> "Panic", err |-> e]

(* One printed line: its format and the values formatted into it. *)
Out(kind, n, ln, text) == [kind |-> kind, n |-> n, line_number |-> ln, text |-> text]

SearchingFor(q) == Out("Searching for", 0, 0, q)
InFile(f) == Out("In file", 0, 0, f)
NoResultsFound == Out("---> No results found", 0, 0, <<>>)
Finding(n, r) == Out("Finding", n, r.line_number, r.line)
WithText(c) == Out("With text", 0, 0, c)

Err(kind, msg) == [kind |-> kind, msg |-> msg]

----------------------------------------------------------------------------
(* Config::new and Config::new_from_args *)

EnvVarIsOk(e) == e.present /\ e.unicode

ignore_case_present_only(e) == EnvVarIsOk(e)

ignore_case_from_env(e) == EnvVarIsOk(e) /\ e.value = "1"

Config_new_swapped(q, f, e) == Config(f, q, ignore_case_from_env(e))

Config_new(q, f, e) == Config(q, f, ignore_case_from_env(e))

(* Result of Config::new_from_args: the returned value and the lines it     *)
(* printed.  Indexing a slice out of range panics.                          *)
new_from_args_shifted(a, d, e) ==
    IF Len(a) < 3
    THEN [tag |-> "Err", err |-> UsageMsg, config |-> NoConfig, out |-> <<>>]
    ELSE [tag |-> "Ok", err |-> "", config |-> Config_new(a[1], a[2], e),
          out |-> IF d THEN <<SearchingFor(a[1]), InFile(a[2])>> ELSE <<>>]

new_from_args_two(a, d, e) ==
    IF Len(a) < 2
    THEN [tag |-> "Err", err |-> UsageMsg, config |-> NoConfig, out |-> <<>>]
    ELSE IF Len(a) < 3
    THEN [tag |-> "Panic", err |-> "index out of bounds", config |-> NoConfig,
          out |-> IF d THEN <<SearchingFor(a[2])>> ELSE <<>>]
    ELSE [tag |-> "Ok", err |-> "", config |-> Config_new(a[2], a[3], e),
          out |-> IF d THEN <<SearchingFor(a[2]), InFile(a[3])>> ELSE <<>>]

new_from_args(a, d, e) ==
    IF Len(a) < 3
    THEN [tag |-> "Err", err |-> UsageMsg, config |-> NoConfig, out |-> <<>>]
    ELSE [tag |-> "Ok", err |-> "", config |-> Config_new(a[2], a[3], e),
          out |-> IF d THEN <<SearchingFor(a[2]), InFile(a[3])>> ELSE <<>>]

----------------------------------------------------------------------------
(* str::lines, str::contains, str::to_lowercase, search *)

FirstNewline(s) ==
    IF \E i \in 1..Len(s) : s[i] = "\n"
    THEN CHOOSE i \in 1..Len(s) : s[i] = "\n" /\ \A j \in 1..(i - 1) : s[j] # "\n"
    ELSE 0

StripCR(l) ==
    IF Len(l) > 0 /\ l[Len(l)] = "\r" THEN SubSeq(l, 1, Len(l) - 1) ELSE l

(* Lines end at "\n" or "\r\n"; the last line needs no line ending, and a   *)
(* final line ending starts no further line; a "\r" not followed by "\n"    *)
(* stays in its line.                                                      *)
RECURSIVE lines(_)
lines(s) ==
    IF s = <<>> THEN <<>>
    ELSE LET nl == FirstNewline(s)
         IN IF nl = 0 THEN <<s>>
            ELSE <<StripCR(SubSeq(s, 1, nl - 1))>> \o lines(SubSeq(s, nl + 1, Len(s)))

starts_with(line, q) ==
    Len(q) <= Len(line) /\ SubSeq(line, 1, Len(q)) = q

contains(line, q) ==
    \E i \in 0..(Len(line) - Len(q)) : SubSeq(line, i + 1, i + Len(q)) = q

char_to_lowercase(c) == IF c = "A" THEN "a" ELSE c

to_lowercase(s) == [i \in 1..Len(s) |-> char_to_lowercase(s[i])]

contains_lowercased_line_only(line, q) == contains(to_lowercase(line), q)

contains_ignore_case(line, q) == contains(to_lowercase(line), to_lowercase(q))

(* The loop of search: i is the 0-based index of enumerate(). *)
RECURSIVE search_loop(_, _, _, _)
search_loop(q, ls, i, acc) ==
    IF i >= Len(ls) THEN acc
    ELSE search_loop(q, ls, i + 1,
                     IF contains(ls[i + 1], q)
                     THEN Append(acc, SearchResult_new(ls[i + 1], i + 1))
                     ELSE acc)

search(q, c) == search_loop(q, lines(c), 0, <<>>)

RECURSIVE search_case_insensitive_loop(_, _, _, _)
search_case_insensitive_loop(q, ls, i, acc) ==
    IF i >= Len(ls) THEN acc
    ELSE search_case_insensitive_loop(q, ls, i + 1,
                     IF contains_ignore_case(ls[i + 1], q)
                     THEN Append(acc, SearchResult_new(ls[i + 1], i + 1))
                     ELSE acc)

search_case_insensitive(q, c) == search_case_insensitive_loop(q, lines(c), 0, <<>>)

(* The notification both searches print when they found nothing. *)
search_notice_never(rs) == <<>>

search_notice(rs) == IF Len(rs) = 0 THEN <<NoResultsFound>> ELSE <<>>

----------------------------------------------------------------------------
(* Initial states: the inputs of one call of one entry point *)

Idle ==
    /\ config = NoConfig
    /\ ret = NoRet
    /\ results = <<>>
    /\ counter = 0
    /\ io_error = "none"
    /\ reads = 0
    /\ searches = 0
    /\ stdout = <<>>
    /\ stderr = <<>>
    /\ exit_code = -1

InitNew ==
    /\ entry = "new" /\ pc = "new"
    /\ args = <<>> /\ dbg = FALSE
    /\ env \in EnvStates
    /\ query \in ArgTokens /\ filename \in ArgTokens
    /\ contents = <<>>
    /\ Idle

InitNewFromArgs ==
    /\ entry = "new_from_args" /\ pc = "new_from_args"
    /\ args \in ArgSeqs /\ dbg \in BOOLEAN
    /\ env \in EnvStates
    /\ query = <<>> /\ filename = <<>> /\ contents = <<>>
    /\ Idle

InitParseConfig ==
    /\ entry = "parse_config" /\ pc = "parse_config"
    /\ args \in ArgSeqs /\ dbg = TRUE
    /\ env \in EnvStates
    /\ query = <<>> /\ filename = <<>> /\ contents = <<>>
    /\ Idle

InitConfig == InitNew \/ InitNewFromArgs \/ InitParseConfig

InitSearch ==
    /\ entry \in {"search", "search_case_insensitive"} /\ pc = entry
    /\ args = <<>> /\ dbg = FALSE
    /\ env = [present |-> FALSE, unicode |-> TRUE, value |-> ""]
    /\ query \in Strings(MaxQueryLen)
    /\ filename = <<>>
    /\ contents \in Strings(MaxContentsLen)
    /\ Idle

(* run takes any Config: the fields of Config are public. *)
InitRun ==
    /\ entry = "run" /\ pc = "run_read"
    /\ args = <<>> /\ dbg = FALSE
    /\ env = [present |-> FALSE, unicode |-> TRUE, value |-> ""]
    /\ query = <<>> /\ filename = <<>> /\ contents = <<>>
    /\ \E q \in Strings(MaxQueryLen), ic \in BOOLEAN : config = Config(q, <<"a">>, ic)
    /\ ret = NoRet
    /\ results = <<>>
    /\ counter = 0
    /\ io_error = "none"
    /\ reads = 0
    /\ searches = 0
    /\ stdout = <<>>
    /\ stderr = <<>>
    /\ exit_code = -1

InitMain ==
    /\ entry = "main" /\ pc = "main_config"
    /\ args \in ArgSeqs /\ dbg = TRUE
    /\ env \in EnvStates
    /\ query = <<>> /\ filename = <<>> /\ contents = <<>>
    /\ Idle

Init == InitConfig \/ InitSearch \/ InitRun \/ InitMain

----------------------------------------------------------------------------
(* Config::new, Config::new_from_args, parse_config *)

New ==
    /\ pc = "new"
    /\ config' = Config_new(query, filename, env)
    /\ ret' = RetOk
    /\ pc' = "done"
    /\ UNCHANGED <<entry, args, dbg, env, query, filename, contents, results, counter,
                   io_error, reads, searches, stdout, stderr, exit_code>>

NewFromArgs ==
    /\ pc = "new_from_args"
    /\ LET r == new_from_args(args, dbg, env)
       IN /\ config' = r.config
          /\ ret' = [tag |-> r.tag, err |-> r.err]
          /\ stdout' = stdout \o r.out
    /\ pc' = "done"
    /\ UNCHANGED <<entry, args, dbg, env, query, filename, contents, results, counter,
                   io_error, reads, searches, stderr, exit_code>>

ParseConfig ==
    /\ pc = "parse_config"
    /\ LET r == new_from_args(args, TRUE, env)
       IN /\ stdout' = stdout \o r.out
          /\ IF r.tag = "Ok"
             THEN /\ config' = r.config
                  /\ ret' = RetOk
                  /\ stderr' = stderr
             ELSE /\ config' = NoConfig
                  /\ ret' = RetPanic(r.err)
                  /\ stderr' = Append(stderr,
                                  Err("Error while parsing the cli arguments", r.err))
    /\ pc' = "done"
    /\ UNCHANGED <<entry, args, dbg, env, query, filename, contents, results, counter,
                   io_error, reads, searches, exit_code>>

NextConfig == New \/ NewFromArgs \/ ParseConfig

----------------------------------------------------------------------------
(* search and search_case_insensitive called by a client *)

Search ==
    /\ pc = "search"
    /\ LET rs == search(query, contents)
       IN /\ results' = rs
          /\ stdout' = stdout \o search_notice(rs)
    /\ searches' = searches + 1
    /\ ret' = RetOk
    /\ pc' = "done"
    /\ UNCHANGED <<entry, args, dbg, env, query, filename, contents, config, counter,
                   io_error, reads, stderr, exit_code>>

SearchCaseInsensitive ==
    /\ pc = "search_case_insensitive"
    /\ LET rs == search_case_insensitive(query, contents)
       IN /\ results' = rs
          /\ stdout' = stdout \o search_notice(rs)
    /\ searches' = searches + 1
    /\ ret' = RetOk
    /\ pc' = "done"
    /\ UNCHANGED <<entry, args, dbg, env, query, filename, contents, config, counter,
                   io_error, reads, stderr, exit_code>>

NextSearch == Search \/ SearchCaseInsensitive

----------------------------------------------------------------------------
(* run (lib.rs) *)

(* read_file propagates the outcome of fs::read_to_string: the text of the  *)
(* file or an io::Error.  On an error the ? operator returns it from run.   *)
RunReadFileOrEmpty ==
    /\ pc = "run_read"
    /\ reads' = reads + 1
    /\ \E ok \in BOOLEAN :
          IF ok
          THEN \E text \in Strings(MaxContentsLen) :
                  /\ contents' = text
                  /\ io_error' = "none"
          ELSE \E e \in IoErrors :
                  /\ contents' = <<>>
                  /\ io_error' = e
    /\ pc' = "run_search"
    /\ UNCHANGED <<entry, args, dbg, env, query, filename, config, ret, results, counter,
                   searches, stdout, stderr, exit_code>>

RunReadFile ==
    /\ pc = "run_read"
    /\ reads' = reads + 1
    /\ \E ok \in BOOLEAN :
          IF ok
          THEN \E text \in Strings(MaxContentsLen) :
                  /\ contents' = text
                  /\ io_error' = "none"
                  /\ ret' = ret
                  /\ pc' = "run_search"
          ELSE \E e \in IoErrors :
                  /\ contents' = contents
                  /\ io_error' = e
                  /\ ret' = RetErr(e)
                  /\ pc' = "done"
    /\ UNCHANGED <<entry, args, dbg, env, query, filename, config, results, counter,
                   searches, stdout, stderr, exit_code>>

RunSearch ==
    /\ pc = "run_search"
    /\ counter' = 1
    /\ LET rs == IF config.ignore_case
                 THEN search_case_insensitive(config.query, contents)
                 ELSE search(config.query, contents)
       IN /\ results' = rs
          /\ stdout' = stdout \o search_notice(rs)
    /\ searches' = searches + 1
    /\ pc' = "run_print"
    /\ UNCHANGED <<entry, args, dbg, env, query, filename, contents, config, ret,
                   io_error, reads, stderr, exit_code>>

(* One iteration of the for loop over results. *)
RunPrint ==
    /\ pc = "run_print"
    /\ counter <= Len(results)
    /\ stdout' = Append(stdout, Finding(counter, results[counter]))
    /\ counter' = counter + 1
    /\ UNCHANGED <<entry, pc, args, dbg, env, query, filename, contents, config, ret,
                   results, io_error, reads, searches, stderr, exit_code>>

RunReturn ==
    /\ pc = "run_print"
    /\ counter > Len(results)
    /\ ret' = RetOk
    /\ pc' = "done"
    /\ UNCHANGED <<entry, args, dbg, env, query, filename, contents, config, results,
                   counter, io_error, reads, searches, stdout, stderr, exit_code>>

NextRun == RunReadFile \/ RunSearch \/ RunPrint \/ RunReturn

----------------------------------------------------------------------------
(* main and run (main.rs) *)

(* Config::new_from_args(&arguments, true).unwrap_or_else(...) *)
MainConfig ==
    /\ pc = "main_config"
    /\ LET r == new_from_args(args, TRUE, env)
       IN /\ stdout' = stdout \o r.out
          /\ config' = r.config
          /\ IF r.tag = "Ok"
             THEN /\ stderr' = stderr
                  /\ exit_code' = exit_code
                  /\ pc' = "main_read"
             ELSE /\ stderr' = Append(stderr, Err("Problem parsing arguments; ERROR", r.err))
                  /\ exit_code' = 1
                  /\ pc' = "exited"
    /\ UNCHANGED <<entry, args, dbg, env, query, filename, contents, ret, results,
                   counter, io_error, reads, searches>>

(* main.rs run: minigrep::read_file, and a panic on its error.  A panic of  *)
(* the main thread prints its message on the error stream and ends the     *)
(* process with status 101.                                                *)
MainReadFile ==
    /\ pc = "main_read"
    /\ reads' = reads + 1
    /\ \E ok \in BOOLEAN :
          IF ok
          THEN \E text \in Strings(MaxContentsLen) :
                  /\ contents' = text
                  /\ io_error' = "none"
                  /\ stderr' = stderr
                  /\ exit_code' = exit_code
                  /\ pc' = "main_print"
          ELSE \E e \in IoErrors :
                  /\ contents' = contents
                  /\ io_error' = e
                  /\ stderr' = Append(stderr, Err("Error reading file", e))
                  /\ exit_code' = 101
                  /\ pc' = "exited"
    /\ UNCHANGED <<entry, args, dbg, env, query, filename, config, ret, results, counter,
                   searches, stdout>>

(* println!("With text:\n{}", contents), then main returns. *)
MainPrint ==
    /\ pc = "main_print"
    /\ stdout' = Append(stdout, WithText(contents))
    /\ exit_code' = 0
    /\ pc' = "exited"
    /\ UNCHANGED <<entry, args, dbg, env, query, filename, contents, config, ret, results,
                   counter, io_error, reads, searches, stderr>>

NextMain == MainConfig \/ MainReadFile \/ MainPrint

----------------------------------------------------------------------------

Next == NextConfig \/ NextSearch \/ NextRun \/ NextMain

Spec == Init /\ [][Next]_vars

SpecConfig == InitConfig /\ [][NextConfig]_vars
SpecSearch == InitSearch /\ [][NextSearch]_vars
SpecRun == InitRun /\ [][NextRun]_vars
SpecMain == InitMain /\ [][NextMain]_vars

----------------------------------------------------------------------------
(* Properties *)

(* q occurs in line as a contiguous run of characters. *)
IsSubstring(q, line) ==
    \E i \in 0..Len(line) : \E j \in i..Len(line) : SubSeq(line, i + 1, j) = q

HasUpper(s) == \E i \in 1..Len(s) : s[i] = "A"

Findings == SelectSeq(stdout, LAMBDA o : o.kind = "Finding")

C3_SearchExact ==
    (entry = "search" /\ pc = "done") =>
        LET ls == lines(contents)
        IN /\ \A i \in 1..Len(ls) :
                 Cardinality({k \in 1..Len(results) : results[k].line_number = i})
                    = IF IsSubstring(query, ls[i]) THEN 1 ELSE 0
           /\ \A k \in 1..Len(results) :
                 /\ results[k].line_number \in 1..Len(ls)
                 /\ results[k].line = ls[results[k].line_number]
           /\ \A k \in 1..(Len(results) - 1) :
                 results[k].line_number < results[k + 1].line_number

C3_Witness ==
    /\ entry = "search" /\ pc = "done"
    /\ Len(lines(contents)) = 2
    /\ Len(results) = 1
    /\ results[1].line_number = 2
    /\ Len(results[1].line) > Len(query)
    /\ ~starts_with(results[1].line, query)

(* C4: search_case_insensitive returns the lines, by number and in the same *)
(* order, that search returns for the lowercased query on the lowercased    *)
(* contents, and each result holds the original text of its line.           *)
C4_CaseInsensitiveAsLowercased ==
    (entry = "search_case_insensitive" /\ pc = "done") =>
        LET lowered == search(to_lowercase(query), to_lowercase(contents))
            ls == lines(contents)
        IN /\ Len(results) = Len(lowered)
           /\ \A k \in 1..Len(results) :
                 /\ results[k].line_number = lowered[k].line_number
                 /\ results[k].line_number \in 1..Len(ls)
                 /\ results[k].line = ls[results[k].line_number]

C4_Witness ==
    /\ entry = "search_case_insensitive" /\ pc = "done"
    /\ HasUpper(query)
    /\ Len(results) = 1
    /\ HasUpper(results[1].line)
    /\ ~IsSubstring(query, results[1].line)

(* C5: in both modes a search with no matching line, empty contents         *)
(* included, returns an empty sequence as a successful value and prints the *)
(* "no results" notification.                                               *)
C5_NoResultsNotice ==
    LET ls == lines(contents)
        NoLineMatches ==
            IF entry = "search"
            THEN \A i \in 1..Len(ls) : ~IsSubstring(query, ls[i])
            ELSE \A i \in 1..Len(ls) :
                    ~IsSubstring(to_lowercase(query), to_lowercase(ls[i]))
    IN (entry \in {"search", "search_case_insensitive"} /\ pc = "done" /\ NoLineMatches) =>
          /\ results = <<>>
          /\ ret = RetOk
          /\ stdout = <<NoResultsFound>>

C5_Witness ==
    /\ entry = "search_case_insensitive" /\ pc = "done"
    /\ Len(lines(contents)) = 2
    /\ query # <<>>
    /\ results = <<>>
    /\ stdout = <<NoResultsFound>>

(* C6: ignore_case of a built configuration is true exactly when            *)
(* MINIGREP_IGNORE_CASE is set and its value is the string "1"; the state   *)
(* of the variable never makes the construction fail.                       *)
C6_IgnoreCaseFromEnv ==
    (entry \in {"new", "new_from_args", "parse_config"} /\ pc = "done") =>
        /\ config.built =>
              (config.ignore_case <=> (env.present /\ env.unicode /\ env.value = "1"))
        /\ entry = "new" => (config.built /\ ret = RetOk)
        /\ entry # "new" => (config.built <=> Len(args) >= 3)

C6_Witness ==
    /\ entry = "new_from_args" /\ pc = "done"
    /\ config.built
    /\ config.ignore_case
    /\ env.value = "1"

(* C7: when the read of the file fails, run returns that error after one    *)
(* read, without searching and without printing; a run that returns Ok has  *)
(* searched once and printed one finding for each result.                   *)
C7_RunReadFailure ==
    entry = "run" =>
        /\ io_error # "none" =>
              /\ pc = "done"
              /\ ret = RetErr(io_error)
              /\ reads = 1
              /\ searches = 0
              /\ results = <<>>
              /\ stdout = <<>>
        /\ ret.tag = "Err" => io_error # "none"
        /\ (pc = "done" /\ ret.tag = "Ok") =>
              /\ reads = 1
              /\ searches = 1
              /\ Findings = [k \in 1..Len(results) |-> Finding(k, results[k])]

C7_Witness ==
    /\ entry = "run" /\ pc = "done"
    /\ io_error = "NotFound"
    /\ ret = RetErr("NotFound")

(* C8: the program ends with exit code 0 when it succeeds and with exit     *)
(* code 1, the message on the error stream, when the configuration cannot   *)
(* be built or the file cannot be read.                                     *)
C8_ExitCodes ==
    (entry = "main" /\ pc = "exited") =>
        /\ (Len(args) >= 3 /\ io_error = "none") => exit_code = 0
        /\ Len(args) < 3 => (exit_code = 1 /\ stderr # <<>>)
        /\ io_error # "none" => (exit_code = 1 /\ stderr # <<>>)

(* C9: when the program, given a non-empty query, ends after a successful   *)
(* read, every line of the file that contains the query has been reported   *)
(* as a finding, and every finding is such a line.                          *)
C9_MainReportsMatches ==
    (entry = "main" /\ pc = "exited" /\ exit_code = 0 /\ config.query # <<>>) =>
        LET ls == lines(contents)
            Matches(l) ==
                IF config.ignore_case
                THEN IsSubstring(to_lowercase(config.query), to_lowercase(l))
                ELSE IsSubstring(config.query, l)
        IN /\ \A i \in 1..Len(ls) :
                 Matches(ls[i]) =>
                    \E k \in 1..Len(Findings) :
                       Findings[k].line_number = i /\ Findings[k].text = ls[i]
           /\ \A k \in 1..Len(Findings) :
                 /\ Findings[k].line_number \in 1..Len(ls)
                 /\ Matches(ls[Findings[k].line_number])

(* C10 as stated: every configuration that is built has a non-empty query.  *)
C10_QueryNonEmpty ==
    (entry \in {"new", "new_from_args", "parse_config"} /\ config.built) =>
        config.query # <<>>

(* C10 amended: the query of a built configuration is empty exactly when    *)
(* the query token given to the builder is empty.                           *)
C10_QueryEmptyIffTokenEmpty ==
    (entry \in {"new", "new_from_args", "parse_config"} /\ pc = "done" /\ config.built) =>
        (config.query = <<>> <=> (IF entry = "new" THEN query ELSE args[2]) = <<>>)

C10_Witness ==
    /\ entry = "parse_config" /\ pc = "done"
    /\ config.built
    /\ args[2] = <<>>
    /\ args[3] # <<>>
    /\ config.query = <<>>

====
